---- MODULE Spec2Model ----
(***************************************************************************)
(* Model of the session/protocol core of Kg_Chat_Flet:                     *)
(*   src/src/core/xmpp.py      XMPPClient (BOSH session, rooms, poll loop) *)
(*   src/src/core/userlist.py  UserList (roster)                           *)
(*   src/src/core/messages.py  MessageParser (decoded stanzas)             *)
(*   src/src/app.py            on_connect / on_send / listen_thread        *)
(*                                                                         *)
(* Python strings are sequences of one-character strings; None is the      *)
(* one-element sequence <<"None">>, which no string of characters equals.  *)
(***************************************************************************)
EXTENDS Integers, Sequences, FiniteSets, TLC

\* ------------------------------------------------------------------ bounds
Seed == 3           \* the request-id drawn at construction, any int(random() * 1e10)
MaxReq == 12        \* requests the transport accepts before the model stops calling
MaxConcReq == 8     \* the same as MaxReq, for the two threads of SpecConc
MaxRosterReq == 4   \* the same as MaxReq, for the joins and polls of SpecRoster
MaxCodecReq == 3    \* the same as MaxReq, for the joins and polls of SpecCodec

\* ------------------------------------------------------------ Python values
None == <<"None">>
Empty == <<>>
Truthy(x) == x # None /\ x # Empty

\* 'c' in s
Has(s, c) == \E i \in 1..Len(s) : s[i] = c

\* index of the first c in s, 0 when there is none
RECURSIVE FindFrom(_, _, _)
FindFrom(s, c, i) ==
    IF i > Len(s) THEN 0 ELSE IF s[i] = c THEN i ELSE FindFrom(s, c, i + 1)

\* s.split(c): the pieces of s between the occurrences of c
RECURSIVE Split(_, _)
Split(s, c) ==
    LET i == FindFrom(s, c, 1) IN
    IF i = 0 THEN <<s>>
    ELSE <<SubSeq(s, 1, i - 1)>> \o Split(SubSeq(s, i + 1, Len(s)), c)

Last(q) == q[Len(q)]

\* ---------------------------------------------------------------- state
VARIABLES
    rid,                      \* XMPPClient.rid
    sid,                      \* XMPPClient.sid
    jid,                      \* XMPPClient.jid
    joined_rooms,             \* XMPPClient._joined_rooms (absent attribute = {})
    initial_roster_received,  \* XMPPClient.initial_roster_received
    users,                    \* XMPPClient.user_list.users
    message_callback,         \* XMPPClient.message_callback is set
    presence_callback,        \* XMPPClient.presence_callback is set
    account,                  \* AccountManager.get_active_account() finds one
    rooms,                    \* AccountManager.get_rooms()
    frame,                    \* per execution context: the call in progress
    wire,                     \* what the server has seen
    cb,                       \* callbacks invoked by the latest _process_response
    seed,                     \* the request-id drawn at construction
    hist,                     \* the first two calls and their requests
    seen,                     \* addresses whose presences the loop handled
    server,                   \* AccountManager.get_server_config(): url, domain
    past                      \* what connect and disconnect have done so far

client == <<rid, sid, jid, joined_rooms, initial_roster_received, users>>
callbacks == <<message_callback, presence_callback>>
config == <<account, rooms, seed, server>>
vars == <<rid, sid, jid, joined_rooms, initial_roster_received, users,
          message_callback, presence_callback, account, rooms, frame, wire,
          cb, seed, hist, seen, server, past>>

Threads == {"main", "poll"}

\* ------------------------------------------------------------ configuration
R1 == <<"r", "1">>
R2 == <<"r", "2">>
Room(j, a) == [jid |-> j, auto_join |-> a]
\* config.json "rooms": no room with auto_join; auto_join on the second and
\* the third room
RoomConfigs ==
    { <<Room(R1, FALSE)>>,
      <<Room(R1, FALSE), Room(R2, TRUE), Room(R1, TRUE)>> }

\* config.json "server": url and domain, None for a missing key
Url == <<"h", "t", "t", "p">>
Domain == <<"k", "g">>
ServerConfig(u, d) == [url |-> u, domain |-> d]

\* ---------------------------------------------------------------- transport
S1 == <<"s", "1">>
S2 == <<"s", "2">>
J1 == <<"j", "1">>
J2 == <<"j", "2">>
NoElem == <<"NoElem">>     \* root.find(...) found no element

\* What requests.post / raise_for_status / ET.fromstring make of an answer:
\* status "error" raises; wf says whether the text is well-formed XML; sid and
\* type are attributes of <body> (None when absent); jid is the text of the
\* bind <jid> element (NoElem without the element, None for an empty one);
\* presences and messages are the stanza elements in the body.
Resp(st, w, s, ty, j, ps, ms) ==
    [status |-> st, wf |-> w, sid |-> s, type |-> ty, jid |-> j,
     presences |-> ps, messages |-> ms]
HttpError == Resp("error", FALSE, None, None, NoElem, <<>>, <<>>)
Malformed == Resp("ok", FALSE, None, None, NoElem, <<>>, <<>>)
EmptyBody == Resp("ok", TRUE, None, None, NoElem, <<>>, <<>>)
SidBody(s) == Resp("ok", TRUE, s, None, NoElem, <<>>, <<>>)
JidBody(j) == Resp("ok", TRUE, None, None, j, <<>>, <<>>)
Terminate == Resp("ok", TRUE, None, <<"terminate">>, NoElem, <<>>, <<>>)
Stanzas(ps, ms) == Resp("ok", TRUE, None, None, NoElem, ps, ms)

\* a request as build_body renders it
Body(k, r, s, to) == [kind |-> k, rid |-> r, sid |-> s, to |-> to]
NoBody == Body("none", -1, None, None)

\* ------------------------------------------------------------ stanza codec
\* A <presence> element: attributes from/type, the klavogonki:userdata fields
\* login/avatar/background, game_id, and the muc#user <item> (None when the
\* attribute or element is absent).
PresenceEl(f, ty, lg, av, bg, g, it) ==
    [from |-> f, type |-> ty, login |-> lg, avatar |-> av, background |-> bg,
     game_id |-> g, item |-> it]
NoItem == [affiliation |-> None, role |-> None, present |-> FALSE]
Item(a, r) == [affiliation |-> a, role |-> r, present |-> TRUE]

\* dict.get(key, default)
Get(v, default) == IF v = None THEN default ELSE v

available == <<"a", "v", "a", "i", "l", "a", "b", "l", "e">>
unavailable == <<"u", "n">> \o available
none == <<"n", "o", "n", "e">>
participant == <<"p", "a", "r", "t", "i", "c", "i", "p", "a", "n", "t">>

\* MessageParser._parse_presence, one element
Presence(el) ==
    LET from_jid == Get(el.from, Empty)
        afterHash == Split(from_jid, "#")[2]
        user_id == IF Has(from_jid, "#")
                   THEN Split(Last(Split(from_jid, "/")), "#")[1]
                   ELSE None
        login == IF ~Truthy(el.login) /\ Has(from_jid, "#")
                 THEN IF Has(afterHash, "/") THEN Split(afterHash, "/")[1]
                      ELSE afterHash
                 ELSE el.login
    IN [from_jid |-> from_jid,
        presence_type |-> Get(el.type, available),
        login |-> login,
        user_id |-> user_id,
        avatar |-> el.avatar,
        background |-> el.background,
        game_id |-> el.game_id,
        affiliation |-> IF el.item.present THEN Get(el.item.affiliation, none)
                        ELSE none,
        role |-> IF el.item.present THEN Get(el.item.role, participant)
                 ELSE participant]

\* A <message> element: attributes from/type, the body text and the
\* klavogonki:userdata fields.
MessageEl(f, ty, b, lg, av, bg) ==
    [from |-> f, type |-> ty, body |-> b, login |-> lg, avatar |-> av,
     background |-> bg]

chat == <<"c", "h", "a", "t">>

\* MessageParser._parse_messages, one element; the timestamp is left out
Message(el) ==
    LET from_jid == Get(el.from, Empty)
        resource == Last(Split(from_jid, "/"))
        hash == FindFrom(resource, "#", 1)
        login == IF ~Truthy(el.login) /\ Truthy(from_jid)
                 THEN IF Has(from_jid, "/")
                      THEN IF hash # 0
                           THEN SubSeq(resource, hash + 1, Len(resource))
                           ELSE resource
                      ELSE None
                 ELSE IF Truthy(el.login) THEN el.login ELSE None
    IN [from_jid |-> from_jid,
        body |-> el.body,
        msg_type |-> Get(el.type, chat),
        login |-> login,
        avatar |-> IF Truthy(el.avatar) THEN el.avatar ELSE None,
        background |-> IF Truthy(el.background) THEN el.background ELSE None]

RECURSIVE MapSeq(_, _)
\* [Op(x) for x in q], Op one of "presence", "message"
MapSeq(q, what) ==
    IF q = <<>> THEN <<>>
    ELSE <<IF what = "presence" THEN Presence(q[1]) ELSE Message(q[1])>>
         \o MapSeq(Tail(q), what)

RECURSIVE WithBody(_)
\* messages without a body are skipped
WithBody(q) ==
    IF q = <<>> THEN <<>>
    ELSE (IF Truthy(q[1].body) THEN <<q[1]>> ELSE <<>>) \o WithBody(Tail(q))

\* a parse that reads the stanzas it recognises in any text
parse_lenient(r) ==
    [messages |-> MapSeq(WithBody(r.messages), "message"),
     presence |-> MapSeq(r.presences, "presence")]
\* MessageParser.parse: two empty lists for text that is not XML
parse(r) ==
    IF ~r.wf THEN [messages |-> <<>>, presence |-> <<>>]
    ELSE [messages |-> MapSeq(WithBody(r.messages), "message"),
          presence |-> MapSeq(r.presences, "presence")]

\* ------------------------------------------------------------------ roster
ChatUser(user_id, login, j, avatar, background, game_id, affiliation, role) ==
    [user_id |-> user_id, login |-> login, jid |-> j, avatar |-> avatar,
     background |-> background, game_id |-> game_id,
     affiliation |-> affiliation, role |-> role, status |-> available]

\* a dict as a function on its keys
Put(d, k, v) == [x \in DOMAIN d \cup {k} |-> IF x = k THEN v ELSE d[x]]
NoUsers == [x \in {} |-> None]

\* the entry add_or_update leaves for the address of p when it updates u;
\* sticky: which of the fields avatar/background/game_id keep the old value
\* when the new one is empty
Updated(u, p, uid, sticky) ==
    [u EXCEPT !.login = p.login,
              !.user_id = IF Truthy(uid) THEN uid ELSE @,
              !.avatar = IF "avatar" \in sticky /\ ~Truthy(p.avatar)
                         THEN @ ELSE p.avatar,
              !.background = IF "background" \in sticky
                                /\ ~Truthy(p.background)
                             THEN @ ELSE p.background,
              !.game_id = IF "game_id" \in sticky /\ ~Truthy(p.game_id)
                          THEN @ ELSE p.game_id,
              !.affiliation = p.affiliation,
              !.role = p.role,
              !.status = available]

\* an update that overwrites avatar and background like the other fields
add_or_update_overwriting(us, p) ==
    IF p.from_jid \in DOMAIN us
    THEN Put(us, p.from_jid, Updated(us[p.from_jid], p, p.user_id, {}))
    ELSE Put(us, p.from_jid,
             ChatUser(IF Truthy(p.user_id) THEN p.user_id ELSE Empty, p.login,
                      p.from_jid, p.avatar, p.background, p.game_id,
                      p.affiliation, p.role))
\* an update that keeps the game when the presence names none
add_or_update_keeping_game(us, p) ==
    IF p.from_jid \in DOMAIN us
    THEN Put(us, p.from_jid,
             Updated(us[p.from_jid], p, p.user_id,
                     {"avatar", "background", "game_id"}))
    ELSE Put(us, p.from_jid,
             ChatUser(IF Truthy(p.user_id) THEN p.user_id ELSE Empty, p.login,
                      p.from_jid, p.avatar, p.background, p.game_id,
                      p.affiliation, p.role))
\* an update that makes a new entry of one that was marked unavailable
add_or_update_fresh(us, p) ==
    IF p.from_jid \in DOMAIN us /\ us[p.from_jid].status = available
    THEN Put(us, p.from_jid,
             Updated(us[p.from_jid], p, p.user_id, {"avatar", "background"}))
    ELSE Put(us, p.from_jid,
             ChatUser(IF Truthy(p.user_id) THEN p.user_id ELSE Empty, p.login,
                      p.from_jid, p.avatar, p.background, p.game_id,
                      p.affiliation, p.role))
\* UserList.add_or_update; last_seen is left out
add_or_update(us, p) ==
    LET uid == IF ~Truthy(p.user_id) /\ Has(p.from_jid, "#")
               THEN Last(Split(Split(p.from_jid, "#")[1], "/"))
               ELSE p.user_id
    IN IF p.from_jid \in DOMAIN us
       THEN Put(us, p.from_jid,
                Updated(us[p.from_jid], p, uid, {"avatar", "background"}))
       ELSE Put(us, p.from_jid,
                ChatUser(IF Truthy(uid) THEN uid ELSE Empty, p.login,
                         p.from_jid, p.avatar, p.background, p.game_id,
                         p.affiliation, p.role))

\* a remove that keeps the entry but not what was known of the occupant
remove_blanking(us, j) ==
    IF j \in DOMAIN us
    THEN Put(us, j, [us[j] EXCEPT !.status = unavailable, !.login = None,
                                  !.avatar = None])
    ELSE us
\* a remove that deletes the entry
remove_forgetting(us, j) == [x \in DOMAIN us \ {j} |-> us[x]]
\* a remove that enters an address it does not know
remove_creating(us, j) ==
    IF j \in DOMAIN us THEN Put(us, j, [us[j] EXCEPT !.status = unavailable])
    ELSE Put(us, j, [ChatUser(Empty, None, j, None, None, None, none,
                              participant) EXCEPT !.status = unavailable])
\* UserList.remove: marks the entry, keeps it
remove(us, j) ==
    IF j \in DOMAIN us THEN Put(us, j, [us[j] EXCEPT !.status = unavailable])
    ELSE us

\* ------------------------------------------------------- _process_response
Klavobot == <<"K", "l", "a", "v", "o", "b", "o", "t">>   \* the bot's login
not_anonymous ==
    <<"n", "o", "t", " ", "a", "n", "o", "n", "y", "m", "o", "u", "s">>

Upper == <<"A", "M", "N", "O", "S", "T", "U", "Y">>
Lower == <<"a", "m", "n", "o", "s", "t", "u", "y">>
\* str.lower on the letters that matter to the filter
lower(s) ==
    [i \in 1..Len(s) |->
        IF \E k \in 1..Len(Upper) : Upper[k] = s[i]
        THEN Lower[CHOOSE k \in 1..Len(Upper) : Upper[k] = s[i]]
        ELSE s[i]]

\* sub in s
Contains(s, sub) ==
    \E i \in 0..(Len(s) - Len(sub)) : SubSeq(s, i + 1, i + Len(sub)) = sub

\* a filter that looks for the phrase as it is spelled
Suppressed_exact_case(m) ==
    m.login = Klavobot \/ Contains(Get(m.body, Empty), not_anonymous)
\* the filter of the message loop
Suppressed(m) ==
    m.login = Klavobot \/ Contains(lower(Get(m.body, Empty)), not_anonymous)

\* one invocation of a callback with its argument; raised: the callback raised
Invocation(which, arg, raised) == [cb |-> which, arg |-> arg, raised |-> raised]

RECURSIVE DispatchMessages(_, _, _, _)
\* the message loop: the callbacks it invokes. n callbacks have been invoked
\* so far; the k-th invocation raises (k = 0: none does) and ends the loop.
DispatchMessages(ms, mcb, n, k) ==
    IF ms = <<>> THEN [cb |-> <<>>, raised |-> FALSE]
    ELSE IF ~Suppressed(ms[1]) /\ mcb
    THEN IF n + 1 = k
         THEN [cb |-> <<Invocation("message", ms[1], TRUE)>>, raised |-> TRUE]
         ELSE LET rest == DispatchMessages(Tail(ms), mcb, n + 1, k)
              IN [cb |-> <<Invocation("message", ms[1], FALSE)>> \o rest.cb,
                  raised |-> rest.raised]
    ELSE DispatchMessages(Tail(ms), mcb, n, k)

\* a presence loop that reports every arrival and every leave
announces_always(ty, is_initial_roster, flag, pcb) ==
    ty \in {available, unavailable} /\ pcb
\* a presence loop that reports leaves only
announces_leaves(ty, is_initial_roster, flag, pcb) ==
    ty = unavailable /\ pcb
\* a presence loop that holds leaves back like arrivals
announces_flagged(ty, is_initial_roster, flag, pcb) ==
    ty \in {available, unavailable} /\ ~is_initial_roster /\ flag /\ pcb
\* whether the presence loop invokes the presence callback for a presence of
\* type ty: an arrival outside the initial roster, any leave
announces(ty, is_initial_roster, flag, pcb) ==
    IF ty = available THEN ~is_initial_roster /\ flag /\ pcb
    ELSE IF ty = unavailable THEN pcb
    ELSE FALSE

RECURSIVE DispatchPresence(_, _, _, _, _, _, _)
\* the presence loop: the roster after it, the callbacks it invokes and the
\* number of presences it handled; the roster is updated before the callback
\* is invoked
DispatchPresence(ps, us, is_initial_roster, flag, pcb, n, k) ==
    IF ps = <<>>
    THEN [users |-> us, cb |-> <<>>, raised |-> FALSE, handled |-> 0]
    ELSE LET p == ps[1]
             us1 == IF p.presence_type = available THEN add_or_update(us, p)
                    ELSE IF p.presence_type = unavailable
                         THEN remove(us, p.from_jid)
                         ELSE us
         IN IF announces(p.presence_type, is_initial_roster, flag, pcb)
            THEN IF n + 1 = k
                 THEN [users |-> us1,
                       cb |-> <<Invocation("presence", p, TRUE)>>,
                       raised |-> TRUE, handled |-> 1]
                 ELSE LET rest == DispatchPresence(Tail(ps), us1,
                                                   is_initial_roster, flag,
                                                   pcb, n + 1, k)
                      IN [users |-> rest.users,
                          cb |-> <<Invocation("presence", p, FALSE)>>
                                 \o rest.cb,
                          raised |-> rest.raised,
                          handled |-> 1 + rest.handled]
            ELSE LET rest == DispatchPresence(Tail(ps), us1, is_initial_roster,
                                              flag, pcb, n, k)
                 IN [rest EXCEPT !.handled = 1 + @]

\* XMPPClient._process_response: the messages, then the presences; a callback
\* that raises ends it where it stands
process_response(r, us, is_initial_roster, flag, mcb, pcb, k) ==
    LET parsed == parse(r)
        m == DispatchMessages(parsed.messages, mcb, 0, k)
        out == DispatchPresence(parsed.presence, us, is_initial_roster, flag,
                                pcb, Len(m.cb), k)
    IN IF m.raised
       THEN [users |-> us, cb |-> m.cb, raised |-> TRUE, handled |-> <<>>]
       ELSE [users |-> out.users, cb |-> m.cb \o out.cb,
             raised |-> out.raised,
             handled |-> SubSeq(parsed.presence, 1, out.handled)]

\* the callbacks a dispatch invokes when none of them raises
Invocations(r, us, is_initial_roster, flag, mcb, pcb) ==
    Len(process_response(r, us, is_initial_roster, flag, mcb, pcb, 0).cb)

\* ------------------------------------------------------------ call frames
\* op: the method last entered; pc: where it stands ("done" once it has
\* returned or raised); stage: the request it is busy with; tmp: the value
\* read by `self.rid += 1`; payload: the body built for the request; resp:
\* the response being processed; arg: the room argument as passed; room: the
\* room the call works on; ret: how the call ended; log: the kinds of the requests it sent; init/bind: what the init and
\* bind requests of a connect were answered with; view: the roster entries a
\* get_all call returned; base: the roster when the presence in hand began
\* to be applied; todo: the presences of the response not yet handled; step:
\* how many field assignments of add_or_update the presence in hand has had.
NotSent == <<"NotSent">>
Raised == <<"Raised">>
NoFrame ==
    [op |-> "none", pc |-> "done", stage |-> "none", tmp |-> 0,
     payload |-> NoBody, resp |-> EmptyBody, arg |-> None, room |-> None,
     ret |-> "none", view |-> <<>>, base |-> <<>>, todo |-> <<>>, step |-> 0,
     log |-> <<>>, init |-> NotSent, bind |-> NotSent]
Enter(op, stage, pc, room) ==
    [NoFrame EXCEPT !.op = op, !.pc = pc, !.stage = stage, !.arg = room,
                    !.room = room, !.ret = "running"]
\* the locals die with the call
Leave(f, ret) ==
    [f EXCEPT !.pc = "done", !.ret = ret, !.tmp = 0, !.payload = NoBody,
              !.resp = EmptyBody, !.base = <<>>, !.todo = <<>>, !.step = 0]

Idle(t) == frame[t].pc = "done"
At(t, op, stage, pc) ==
    frame[t].op = op /\ frame[t].stage = stage /\ frame[t].pc = pc

\* ---------------------------------------------------------- history
\* hist remembers the first two calls made on the client, how they ended and
\* the requests they sent; with the third call it forgets them for good.
NoHist == [calls |-> <<>>, sent |-> <<>>, live |-> FALSE]
Begin(h, op) ==
    IF h.live /\ Len(h.calls) < 2
    THEN [h EXCEPT !.calls = Append(@, [op |-> op, ret |-> "running"])]
    ELSE NoHist
End(h, ret) ==
    IF h.live THEN [h EXCEPT !.calls[Len(h.calls)].ret = ret] ELSE h
Record(h, body) == IF h.live THEN [h EXCEPT !.sent = Append(@, body)] ELSE h

\* past, where it is kept (live): failed: the last connect that returned
\* returned False; stopped: a disconnect has returned; sid / jid: a connect has
\* stored a session id / a bound address since the last disconnect returned.
NoPast ==
    [live |-> FALSE, failed |-> FALSE, stopped |-> FALSE, sid |-> FALSE,
     jid |-> FALSE]
ConnectReturned(p, ret) ==
    IF p.live /\ ret \in {"True", "False"}
    THEN [p EXCEPT !.failed = (ret = "False")] ELSE p
StoredSid(p, v) == IF p.live /\ Truthy(v) THEN [p EXCEPT !.sid = TRUE] ELSE p
StoredJid(p, v) == IF p.live /\ Truthy(v) THEN [p EXCEPT !.jid = TRUE] ELSE p
DisconnectReturned(p) ==
    IF p.live
    THEN [p EXCEPT !.stopped = TRUE, !.sid = FALSE, !.jid = FALSE] ELSE p

\* seen after the presence loop handled the presences ps
See(sn, ps) ==
    [any |-> sn.any \cup {ps[i].from_jid : i \in 1..Len(ps)},
     available |-> sn.available \cup
         {ps[i].from_jid : i \in {j \in 1..Len(ps) :
                                    ps[j].presence_type = available}}]

\* the request reaches the server (also when the answer is an HTTP error
\* status): wire counts the requests, keeps the last one and the highest rid
Arrive(w, body) ==
    [n |-> w.n + 1, last |-> body,
     maxrid |-> IF body.rid > w.maxrid THEN body.rid ELSE w.maxrid]

\* ------------------------------------------------------------------- Init
Init ==
    /\ seed = Seed
    /\ rid = seed
    /\ sid = None
    /\ jid = None
    /\ joined_rooms = {}
    /\ initial_roster_received = FALSE
    /\ users = NoUsers
    /\ message_callback = FALSE
    /\ presence_callback = FALSE
    /\ account \in BOOLEAN
    /\ rooms \in RoomConfigs
    /\ frame = [t \in Threads |-> NoFrame]
    /\ wire = [n |-> 0, last |-> NoBody, maxrid |-> -1]
    /\ cb = <<>>
    /\ hist = [calls |-> <<>>, sent |-> <<>>, live |-> TRUE]
    /\ seen = [any |-> {}, available |-> {}]
    /\ server = ServerConfig(Url, Domain)
    /\ past = NoPast

\* --------------------------------------------------- one request round trip
\* `self.rid += 1`, the read
rid_load(t) ==
    /\ frame[t].pc = "load"
    /\ frame' = [frame EXCEPT ![t].tmp = rid, ![t].pc = "store"]
    /\ UNCHANGED <<client, callbacks, config, seen, past, wire, cb, hist>>

\* `self.rid += 1`, the write
rid_store(t) ==
    /\ frame[t].pc = "store"
    /\ rid' = frame[t].tmp + 1
    /\ frame' = [frame EXCEPT ![t].pc = "build"]
    /\ UNCHANGED <<sid, jid, joined_rooms, initial_roster_received, users,
                   callbacks, config, seen, past, wire, cb, hist>>

\* a body that never names the session
session_attr_never(s) == None
\* `if self.sid: body_attrs['sid'] = self.sid`: the sid attribute of a body,
\* None when it has none
session_attr(s) == IF Truthy(s) THEN s ELSE None

\* build_body: the request carries the current rid and, when set, the sid
build_body(t) ==
    /\ frame[t].pc = "build"
    /\ frame' = [frame EXCEPT
                   ![t].payload = Body(frame[t].stage, rid, session_attr(sid),
                                       frame[t].room),
                   ![t].pc = "post"]
    /\ UNCHANGED <<client, callbacks, config, seen, past, wire, cb, hist>>

\* `self.rid += 1` and build_body in one step, as a single execution context
\* runs them
increment_and_build(t) ==
    /\ frame[t].pc = "load"
    /\ frame[t].op = "listen" => wire.n < MaxReq
    /\ rid' = rid + 1
    /\ frame' = [frame EXCEPT
                   ![t].payload = Body(frame[t].stage, rid', session_attr(sid),
                                       frame[t].room),
                   ![t].pc = "post"]
    /\ UNCHANGED <<sid, jid, joined_rooms, initial_roster_received, users,
                   callbacks, config, seen, past, wire, cb, hist>>

\* send_request: the request is posted; f is the frame after the answer
Posted(t, f) ==
    /\ wire' = Arrive(wire, frame[t].payload)
    /\ frame' = [frame EXCEPT
                   ![t] = [f EXCEPT !.log = Append(@, frame[t].payload.kind)]]

\* the call goes on after the request, or ends with it
Continue(t, f) ==
    /\ Posted(t, f)
    /\ hist' = Record(hist, frame[t].payload)
Finish(t, f, ret) ==
    /\ Posted(t, Leave(f, ret))
    /\ hist' = End(Record(hist, frame[t].payload), ret)
\* the call ends without a request
Return(t, f, ret) ==
    /\ frame' = [frame EXCEPT ![t] = Leave(f, ret)]
    /\ hist' = End(Begin(hist, f.op), ret)

\* ---------------------------------------------------- callback registration
set_message_callback(t) ==
    /\ Idle(t)
    /\ ~message_callback
    /\ message_callback' = TRUE
    /\ UNCHANGED <<client, presence_callback, config, seen, past, frame, wire, cb,
                   hist>>

set_presence_callback(t) ==
    /\ Idle(t)
    /\ ~presence_callback
    /\ presence_callback' = TRUE
    /\ UNCHANGED <<client, message_callback, config, seen, past, frame, wire, cb,
                   hist>>

\* ---------------------------------------------------------------- connect
\* a connect whose init request is preceded by `self.rid += 1`
connect_entry_incremented == "load"
\* where connect starts: the init request is built with the rid as it stands
connect_entry == "build"

\* connect(): the account lookup, then the init request
\* the account argument resolves to a (an account was found or not): None is
\* the active account, a login is looked up, a dict is taken as it is
call_connect_with(t, a) ==
    /\ Idle(t)
    /\ IF a
       THEN /\ wire.n + 5 <= MaxReq
            /\ frame' = [frame EXCEPT
                           ![t] = Enter("connect", "init", connect_entry, None)]
            /\ hist' = Begin(hist, "connect")
            /\ UNCHANGED past
       ELSE /\ Return(t, Enter("connect", "init", connect_entry, None),
                      "False")
            /\ past' = ConnectReturned(past, "False")
    /\ UNCHANGED <<client, callbacks, config, seen, wire, cb>>

call_connect(t) ==
    /\ Idle(t)
    /\ IF account
       THEN /\ wire.n + 5 <= MaxReq
            /\ frame' = [frame EXCEPT
                           ![t] = Enter("connect", "init", connect_entry, None)]
            /\ hist' = Begin(hist, "connect")
            /\ UNCHANGED past
       ELSE /\ Return(t, Enter("connect", "init", connect_entry, None),
                      "False")
            /\ past' = ConnectReturned(past, "False")
    /\ UNCHANGED <<client, callbacks, config, seen, wire, cb>>

\* the sid connect holds after the init answer r
sid_after_init(r, old) == IF r.wf THEN r.sid ELSE old
\* a bind step that keeps a jid it already has
jid_after_bind_keep(r, old) ==
    IF Truthy(old) THEN old ELSE IF r.wf /\ r.jid # NoElem THEN r.jid ELSE old
\* the jid connect holds after the bind answer r
jid_after_bind(r, old) == IF r.wf /\ r.jid # NoElem THEN r.jid ELSE old

\* what an init / bind answer supplied
SidSupplied(r) ==
    IF r.status = "error" THEN Raised ELSE IF r.wf THEN r.sid ELSE None
JidSupplied(r) ==
    IF r.status = "error" THEN Raised
    ELSE IF r.wf /\ r.jid # NoElem THEN r.jid ELSE None

\* "Initialize session"
connect_init(t, r) ==
    /\ At(t, "connect", "init", "post")
    /\ LET f == [frame[t] EXCEPT !.init = SidSupplied(r)] IN
       IF r.status = "error"
       THEN Finish(t, f, "raised") /\ UNCHANGED <<sid, past>>
       ELSE /\ sid' = sid_after_init(r, sid)
            /\ IF ~Truthy(sid')
               THEN /\ Finish(t, f, "False")
                    /\ past' = ConnectReturned(past, "False")
               ELSE /\ Continue(t, [f EXCEPT !.stage = "auth",
                                             !.pc = "load"])
                    /\ past' = StoredSid(past, SidSupplied(r))
    /\ UNCHANGED <<rid, jid, joined_rooms, initial_roster_received, users,
                   callbacks, config, seen, cb>>

\* an auth step that gives up on an answer that is not a plain body
connect_auth_checked(t, r) ==
    /\ At(t, "connect", "auth", "post")
    /\ IF r.status = "error"
       THEN Finish(t, frame[t], "raised") /\ UNCHANGED past
       ELSE IF ~r.wf \/ r.type # None
       THEN /\ Finish(t, frame[t], "False")
            /\ past' = ConnectReturned(past, "False")
       ELSE /\ Continue(t, [frame[t] EXCEPT !.stage = "restart",
                                            !.pc = "load"])
            /\ UNCHANGED past
    /\ UNCHANGED <<client, callbacks, config, seen, cb>>

\* "Auth"
connect_auth(t, r) ==
    /\ At(t, "connect", "auth", "post")
    /\ IF r.status = "error"
       THEN Finish(t, frame[t], "raised")
       ELSE Continue(t, [frame[t] EXCEPT !.stage = "restart", !.pc = "load"])
    /\ UNCHANGED <<client, callbacks, config, seen, past, cb>>

\* "Restart stream"
connect_restart(t, r) ==
    /\ At(t, "connect", "restart", "post")
    /\ IF r.status = "error"
       THEN Finish(t, frame[t], "raised")
       ELSE Continue(t, [frame[t] EXCEPT !.stage = "bind", !.pc = "load"])
    /\ UNCHANGED <<client, callbacks, config, seen, past, cb>>

\* "Bind resource"
connect_bind(t, r) ==
    /\ At(t, "connect", "bind", "post")
    /\ LET f == [frame[t] EXCEPT !.bind = JidSupplied(r)] IN
       IF r.status = "error"
       THEN Finish(t, f, "raised") /\ UNCHANGED <<jid, past>>
       ELSE /\ jid' = jid_after_bind(r, jid)
            /\ IF ~Truthy(jid')
               THEN /\ Finish(t, f, "False")
                    /\ past' = ConnectReturned(past, "False")
               ELSE /\ Continue(t, [f EXCEPT !.stage = "session",
                                             !.pc = "load"])
                    /\ past' = StoredJid(past, JidSupplied(r))
    /\ UNCHANGED <<rid, sid, joined_rooms, initial_roster_received, users,
                   callbacks, config, seen, cb>>

\* "Session"
connect_session(t, r) ==
    /\ At(t, "connect", "session", "post")
    /\ Finish(t, frame[t], IF r.status = "error" THEN "raised" ELSE "True")
    /\ past' = ConnectReturned(past,
                               IF r.status = "error" THEN "raised" ELSE "True")
    /\ UNCHANGED <<client, callbacks, config, seen, cb>>

\* -------------------------------------------------------------- join_room
\* a join that forgets which rooms it joined
already_joined_never(room, joined) == FALSE
\* `room_jid in self._joined_rooms`
already_joined(room, joined) == room \in joined

\* join_room(room): nothing happens for a room already joined; without an
\* account account['user_id'] raises
call_join_room(t, room) ==
    /\ Idle(t)
    /\ IF already_joined(room, joined_rooms)
       THEN Return(t, Enter("join_room", "join", "load", room), "None")
       ELSE IF ~account
       THEN Return(t, Enter("join_room", "join", "load", room), "raised")
       ELSE /\ wire.n + 1 <= MaxReq
            /\ frame' = [frame EXCEPT
                           ![t] = Enter("join_room", "join", "load", room)]
            /\ hist' = Begin(hist, "join_room")
    /\ UNCHANGED <<client, callbacks, config, seen, past, wire, cb>>

\* the join presence is posted; the answer is the initial roster
join_room_send(t, r) ==
    /\ At(t, "join_room", "join", "post")
    /\ IF r.status = "error"
       THEN Finish(t, frame[t], "raised") /\ UNCHANGED initial_roster_received
       ELSE /\ Continue(t, [frame[t] EXCEPT !.resp = r, !.pc = "process"])
            /\ initial_roster_received' = FALSE
    /\ UNCHANGED <<rid, sid, jid, joined_rooms, users, callbacks, config, seen, past,
                   cb>>

\* the answer is processed, the flag set and the room recorded; a callback
\* that raises leaves the flag down and the room out of the set
\* a join that records the room whether or not its processing raised
joined_after_always(js, room, raised) == js \cup {room}
\* _joined_rooms after the response of a join for room was processed; the
\* add is the last statement of join_room
joined_after(js, room, raised) == IF raised THEN js ELSE js \cup {room}

join_room_process(t) ==
    /\ At(t, "join_room", "join", "process")
    /\ \E k \in 0..Invocations(frame[t].resp, users, TRUE,
                               initial_roster_received, message_callback,
                               presence_callback) :
         LET out == process_response(frame[t].resp, users, TRUE,
                                     initial_roster_received, message_callback,
                                     presence_callback, k)
         IN /\ users' = out.users
            /\ cb' = out.cb
            /\ seen' = See(seen, out.handled)
            /\ IF out.raised
               THEN /\ UNCHANGED initial_roster_received
                    /\ joined_rooms' =
                          joined_after(joined_rooms, frame[t].room, TRUE)
                    /\ frame' = [frame EXCEPT ![t] = Leave(@, "raised")]
                    /\ hist' = End(hist, "raised")
               ELSE /\ initial_roster_received' = TRUE
                    /\ joined_rooms' =
                          joined_after(joined_rooms, frame[t].room, FALSE)
                    /\ frame' = [frame EXCEPT ![t] = Leave(@, "None")]
                    /\ hist' = End(hist, "None")
    /\ UNCHANGED <<rid, sid, jid, callbacks, config, wire, past>>

\* ----------------------------------------------------------- send_message
RECURSIVE default_room_last(_)
\* a default that takes the last configured room with auto_join
default_room_last(rs) ==
    IF rs = <<>> THEN None
    ELSE IF rs[Len(rs)].auto_join THEN rs[Len(rs)].jid
    ELSE default_room_last(SubSeq(rs, 1, Len(rs) - 1))

RECURSIVE default_room(_)
\* the jid of the first configured room with auto_join, None without one
default_room(rs) ==
    IF rs = <<>> THEN None
    ELSE IF rs[1].auto_join THEN rs[1].jid ELSE default_room(Tail(rs))

\* a send that looks at the sid only
no_session_sid_only(s, j) == ~Truthy(s)
\* `not self.sid or not self.jid`
no_session(s, j) == ~Truthy(s) \/ ~Truthy(j)

\* send_message(body, room): False without a session or a room
call_send_message(t, room) ==
    /\ Idle(t)
    /\ LET room_jid == IF room = None THEN default_room(rooms) ELSE room
           f == [Enter("send_message", "message", "load", room_jid)
                   EXCEPT !.arg = room]
       IN IF no_session(sid, jid) \/ ~Truthy(room_jid)
          THEN Return(t, f, "False")
          ELSE /\ wire.n + 1 <= MaxReq
               /\ frame' = [frame EXCEPT ![t] = f]
               /\ hist' = Begin(hist, "send_message")
    /\ UNCHANGED <<client, callbacks, config, seen, past, wire, cb>>

\* the message is posted; an error of the transport is caught
send_message_send(t, r) ==
    /\ At(t, "send_message", "message", "post")
    /\ Finish(t, frame[t], IF r.status = "error" THEN "False" ELSE "True")
    /\ UNCHANGED <<client, callbacks, config, seen, past, cb>>

\* ----------------------------------------------------------------- listen
call_listen(t) ==
    /\ Idle(t)
    /\ wire.n + 1 <= MaxReq
    /\ frame' = [frame EXCEPT ![t] = Enter("listen", "poll", "load", None)]
    /\ hist' = Begin(hist, "listen")
    /\ UNCHANGED <<client, callbacks, config, seen, past, wire, cb>>

\* a poll loop that gives up on text that is not XML
poll_outcome_strict(r) ==
    IF r.status = "error" \/ ~r.wf THEN "except"
    ELSE IF r.type = <<"terminate">> THEN "break"
    ELSE "dispatch"
\* a poll loop that dispatches a terminate body like any other
poll_outcome_deaf(r) ==
    IF r.status = "error" THEN "except"
    ELSE IF ~r.wf THEN "skip"
    ELSE "dispatch"
\* what one turn of the loop does with the answer r: an error of the
\* transport is caught outside the loop (except Exception), text that is not
\* XML is skipped, a terminate body breaks the loop, anything else is
\* dispatched
poll_outcome(r) ==
    IF r.status = "error" THEN "except"
    ELSE IF ~r.wf THEN "skip"
    ELSE IF r.type = <<"terminate">> THEN "break"
    ELSE "dispatch"

\* one poll is posted and answered; the answer stays in the frame
listen_poll(t, r) ==
    /\ At(t, "listen", "poll", "post")
    /\ LET f == [frame[t] EXCEPT !.resp = r]
           o == poll_outcome(r)
       IN IF o \in {"except", "break"}
          THEN /\ Posted(t, [Leave(f, "None") EXCEPT !.resp = r])
               /\ hist' = End(Record(hist, frame[t].payload), "None")
          ELSE IF o = "skip" THEN Continue(t, [f EXCEPT !.pc = "load"])
          ELSE Continue(t, [f EXCEPT !.pc = "process"])
    /\ UNCHANGED <<client, callbacks, config, seen, past, cb>>

\* the stanzas of the poll answer are dispatched, then the loop goes round; a
\* callback that raises ends the loop (except Exception)
listen_process(t) ==
    /\ At(t, "listen", "poll", "process")
    /\ \E k \in 0..Invocations(frame[t].resp, users, FALSE,
                               initial_roster_received, message_callback,
                               presence_callback) :
         LET out == process_response(frame[t].resp, users, FALSE,
                                     initial_roster_received, message_callback,
                                     presence_callback, k)
         IN /\ users' = out.users
            /\ cb' = out.cb
            /\ seen' = See(seen, out.handled)
            /\ IF out.raised
               THEN /\ frame' = [frame EXCEPT
                                   ![t] = [Leave(@, "None") EXCEPT
                                              !.resp = frame[t].resp]]
                    /\ hist' = End(hist, "None")
               ELSE /\ frame' = [frame EXCEPT ![t].pc = "load"]
                    /\ UNCHANGED hist
    /\ UNCHANGED <<rid, sid, jid, joined_rooms, initial_roster_received,
                   callbacks, config, wire, past>>

\* ------------------------------------------------------------- disconnect
\* disconnect(): everything happens under `if self.sid`
call_disconnect(t) ==
    /\ Idle(t)
    /\ IF Truthy(sid)
       THEN /\ wire.n + 1 <= MaxReq
            /\ frame' = [frame EXCEPT
                           ![t] = Enter("disconnect", "terminate", "load",
                                        None)]
            /\ hist' = Begin(hist, "disconnect")
            /\ UNCHANGED past
       ELSE /\ Return(t, Enter("disconnect", "terminate", "load", None),
                      "None")
            /\ past' = DisconnectReturned(past)
    /\ UNCHANGED <<client, callbacks, config, seen, wire, cb>>

\* a disconnect that also forgets the joined rooms
disconnect_send_reset(t, r) ==
    /\ At(t, "disconnect", "terminate", "post")
    /\ Finish(t, frame[t], "None")
    /\ past' = DisconnectReturned(past)
    /\ sid' = None
    /\ jid' = None
    /\ joined_rooms' = {}
    /\ UNCHANGED <<rid, initial_roster_received, users, callbacks, config, seen,
                   cb>>

\* a disconnect that lets an error of the transport out and keeps the session
disconnect_send_strict(t, r) ==
    /\ At(t, "disconnect", "terminate", "post")
    /\ IF r.status = "error"
       THEN /\ Finish(t, frame[t], "raised")
            /\ UNCHANGED <<sid, jid, past>>
       ELSE /\ Finish(t, frame[t], "None")
            /\ past' = DisconnectReturned(past)
            /\ sid' = None
            /\ jid' = None
    /\ UNCHANGED <<rid, joined_rooms, initial_roster_received, users,
                   callbacks, config, seen, cb>>

\* the terminate request is posted, errors are swallowed, the session cleared
disconnect_send(t, r) ==
    /\ At(t, "disconnect", "terminate", "post")
    /\ Finish(t, frame[t], "None")
    /\ past' = DisconnectReturned(past)
    /\ sid' = None
    /\ jid' = None
    /\ joined_rooms' = joined_rooms
    /\ UNCHANGED <<rid, initial_roster_received, users, callbacks, config, seen,
                   cb>>

\* ------------------------------------------------- the transport's answers
U1 == <<"r", "/", "7", "#", "a">>      \* an occupant's address: room/id#login
PA == PresenceEl(U1, None, None, None, None, None, NoItem)
PU == PresenceEl(U1, unavailable, None, None, None, None, NoItem)
M1 == MessageEl(U1, None, <<"h", "i">>, None, None, None)

InitResponses ==
    {HttpError, Malformed, EmptyBody, SidBody(Empty), SidBody(S1), SidBody(S2)}
AckResponses == {HttpError, EmptyBody}
BindResponses ==
    {HttpError, Malformed, EmptyBody, JidBody(None), JidBody(J1), JidBody(J2)}
JoinResponses == {HttpError, Malformed, EmptyBody, Stanzas(<<PA>>, <<>>)}
PollResponses ==
    {HttpError, Malformed, Terminate, EmptyBody, Stanzas(<<PU>>, <<M1>>)}

RoomArgs == {None, R1, R2}

\* -------------------------------------------- one execution context: Spec
\* Every method is called from the context "main", one call after the other.
Next ==
    \/ call_connect("main")
    \/ \E r \in InitResponses : connect_init("main", r)
    \/ \E r \in AckResponses : connect_auth("main", r)
    \/ \E r \in AckResponses : connect_restart("main", r)
    \/ \E r \in BindResponses : connect_bind("main", r)
    \/ \E r \in AckResponses : connect_session("main", r)
    \/ \E room \in {R1, R2} : call_join_room("main", room)
    \/ \E r \in JoinResponses : join_room_send("main", r)
    \/ join_room_process("main")
    \/ \E room \in RoomArgs : call_send_message("main", room)
    \/ \E r \in AckResponses : send_message_send("main", r)
    \/ call_listen("main")
    \/ \E r \in PollResponses : listen_poll("main", r)
    \/ listen_process("main")
    \/ call_disconnect("main")
    \/ \E r \in AckResponses : disconnect_send("main", r)
    \/ increment_and_build("main")
    \/ build_body("main")

Spec == Init /\ [][Next]_vars


\* ------------------------------------------ roster and callbacks: SpecRoster
\* The callbacks are registered, rooms joined and the poll loop run from one
\* context; the answers carry the occupants' presences. _process_response
\* reads neither the session id nor the bound address, so the handshake is
\* left out.
U2 == <<"r", "/", "8", "#", "b">>
L1 == <<"x">>
L2 == <<"y">>
A1 == <<"a", "1">>
A2 == <<"a", "2">>
B1 == <<"b", "1">>
G1 == <<"g", "1">>
owner == <<"o", "w", "n", "e", "r">>
moderator == <<"m", "o", "d">>
\* U1 with userdata, a game and a membership block
PFull == PresenceEl(U1, None, L1, A1, B1, G1, Item(owner, moderator))
\* U1 with another login and avatar, an empty membership block, nothing else
PNew == PresenceEl(U1, available, L2, A2, None, None, Item(None, None))
PB == PresenceEl(U2, None, L1, None, B1, None, NoItem)
PBU == PresenceEl(U2, unavailable, None, A1, None, None, NoItem)

RosterJoinResponses ==
    {HttpError, Stanzas(<<PFull>>, <<>>), Stanzas(<<PA, PBU>>, <<M1>>)}
RosterPollResponses ==
    { Malformed, Terminate,
      Stanzas(<<PA>>, <<>>), Stanzas(<<PFull, PU>>, <<>>),
      Stanzas(<<PNew>>, <<M1>>), Stanzas(<<PU>>, <<>>),
      Stanzas(<<PB, PA>>, <<>>), Stanzas(<<PBU>>, <<>>) }

NextRoster ==
    \/ set_message_callback("main")
    \/ set_presence_callback("main")
    \/ \E room \in {R1, R2} :
          wire.n < MaxRosterReq /\ call_join_room("main", room)
    \/ \E r \in RosterJoinResponses : join_room_send("main", r)
    \/ join_room_process("main")
    \/ wire.n < MaxRosterReq /\ call_listen("main")
    \/ \E r \in RosterPollResponses : listen_poll("main", r)
    \/ listen_process("main")
    \/ wire.n < MaxRosterReq /\ increment_and_build("main")

\* a new client whose account manager has an active account and the rooms of
\* the second configuration
InitRoster == Init /\ account /\ Len(rooms) = 3

SpecRoster == InitRoster /\ [][NextRoster]_vars

\* ----------------------------------------------- decoding: SpecCodec
\* Rooms are joined and the poll loop run from one context with both
\* callbacks registered at some point; the answers carry messages of the bot,
\* with the moderation phrase, and ordinary ones, text that is not XML, and a
\* presence whose address has the '/' after the '#'.
hi == <<"h", "i">>
UBot == <<"r", "/", "9", "#">> \o Klavobot      \* room/id#login of the bot
U25 == <<"1", "2", "#", "a", "l", "/", "g", "7">>   \* id#login/game
\* the phrase in mixed case, alone and inside a longer body, and all but its
\* last letter
PhraseMixed ==
    <<"N", "o", "T", " ", "A", "n", "O", "N", "y", "M", "o", "U", "s">>
PhraseInside == <<"x", " ">> \o PhraseMixed \o <<"!">>
PhraseCut == SubSeq(not_anonymous, 1, Len(not_anonymous) - 1)
MBot == MessageEl(U1, None, hi, Klavobot, None, None)
MBotAddress == MessageEl(UBot, None, hi, None, None, None)
MPhrase == MessageEl(U1, None, PhraseMixed, None, None, None)
MInside == MessageEl(U1, None, PhraseInside, L1, None, None)
MCut == MessageEl(U1, None, PhraseCut, None, None, None)
MNoBody == MessageEl(U1, None, None, None, None, None)
P25 == PresenceEl(U25, None, None, None, None, None, NoItem)
\* text that is not XML although stanzas can be read in it
Garbled == Resp("ok", FALSE, None, None, NoElem, <<PA>>, <<M1>>)

CodecJoinResponses == {Garbled, Stanzas(<<PA>>, <<M1>>)}
\* a terminate body that carries stanzas
TerminateWith == Resp("ok", TRUE, None, <<"terminate">>, NoElem, <<PA>>, <<M1>>)
CodecPollResponses ==
    { Malformed, TerminateWith,
      Stanzas(<<>>, <<MBot, M1, MPhrase>>),
      Stanzas(<<>>, <<MBotAddress, MCut, MNoBody>>),
      Stanzas(<<PU>>, <<MInside>>),
      Stanzas(<<P25>>, <<>>) }

NextCodec ==
    \/ set_message_callback("main")
    \/ set_presence_callback("main")
    \/ \E room \in {R1, R2} :
          wire.n < MaxCodecReq /\ call_join_room("main", room)
    \/ \E r \in CodecJoinResponses : join_room_send("main", r)
    \/ join_room_process("main")
    \/ wire.n < MaxCodecReq /\ call_listen("main")
    \/ \E r \in CodecPollResponses : listen_poll("main", r)
    \/ listen_process("main")
    \/ wire.n < MaxCodecReq /\ increment_and_build("main")

SpecCodec == InitRoster /\ [][NextCodec]_vars

\* ------------------------------------------------- construction: SpecNew
\* a check that looks at the url only
invalid_config_url_only(u, d) == ~Truthy(u)
\* `not self.url or not self.domain`
invalid_config(u, d) == ~Truthy(u) \/ ~Truthy(d)

ServerConfigs ==
    { ServerConfig(Url, Domain), ServerConfig(None, Domain),
      ServerConfig(Empty, Domain), ServerConfig(Url, None),
      ServerConfig(Url, Empty), ServerConfig(None, None) }

\* XMPPClient(config_path) is about to run
InitNew ==
    /\ seed = Seed
    /\ rid = 0
    /\ sid = None
    /\ jid = None
    /\ joined_rooms = {}
    /\ initial_roster_received = FALSE
    /\ users = NoUsers
    /\ message_callback = FALSE
    /\ presence_callback = FALSE
    /\ account \in BOOLEAN
    /\ rooms \in RoomConfigs
    /\ frame = [t \in Threads |->
                  IF t = "main" THEN Enter("__init__", "none", "config", None)
                  ELSE NoFrame]
    /\ wire = [n |-> 0, last |-> NoBody, maxrid |-> -1]
    /\ cb = <<>>
    /\ hist = [calls |-> <<>>, sent |-> <<>>, live |-> TRUE]
    /\ seen = [any |-> {}, available |-> {}]
    /\ server \in ServerConfigs
    /\ past = NoPast

\* __init__: the fields are set, then a config without url or domain raises
construct(t) ==
    /\ At(t, "__init__", "none", "config")
    /\ rid' = seed
    /\ frame' = [frame EXCEPT
                   ![t] = Leave(@, IF invalid_config(server.url, server.domain)
                                   THEN "raised" ELSE "None")]
    /\ UNCHANGED <<sid, jid, joined_rooms, initial_roster_received, users,
                   callbacks, config, wire, cb, hist, seen, past>>

\* the caller holds a client: the constructor returned
Constructed(t) == frame[t].op # "__init__" \/ frame[t].ret = "None"

NextNew ==
    \/ construct("main")
    \/ Constructed("main") /\ call_connect("main")
    \/ \E r \in InitResponses : connect_init("main", r)
    \/ \E r \in AckResponses : connect_auth("main", r)
    \/ \E r \in AckResponses : connect_restart("main", r)
    \/ \E r \in BindResponses : connect_bind("main", r)
    \/ \E r \in AckResponses : connect_session("main", r)
    \/ increment_and_build("main")
    \/ build_body("main")

SpecNew == InitNew /\ [][NextNew]_vars

\* ------------------------------------- the application's threads: SpecConc
\* app.py: on_connect connects a new client, joins the auto_join rooms and
\* starts listen() on a thread of its own; on_send then calls send_message
\* from the UI context while that thread polls. No lock guards the client.
Connected ==
    /\ Idle("main")
    /\ \/ frame["main"].op = "connect" /\ frame["main"].ret = "True"
       \/ frame["main"].op = "join_room" /\ frame["main"].ret = "None"

on_connect ==
    /\ frame["main"].op = "none"
    /\ call_connect("main")

\* the joins of on_connect, were they to run after the listener was started
on_connect_join_anytime ==
    /\ Connected
    /\ \E i \in 1..Len(rooms) :
          /\ rooms[i].auto_join
          /\ call_join_room("main", rooms[i].jid)

on_connect_join ==
    /\ Connected
    /\ frame["poll"].op = "none"
    /\ \E i \in 1..Len(rooms) :
          /\ rooms[i].auto_join
          /\ call_join_room("main", rooms[i].jid)

listen_thread ==
    /\ Connected
    /\ frame["poll"].op = "none"
    /\ call_listen("poll")

on_send ==
    /\ frame["poll"].op = "listen"
    /\ call_send_message("main", None)

NextConc ==
    \/ on_connect
    \/ \E r \in InitResponses : connect_init("main", r)
    \/ \E r \in AckResponses : connect_auth("main", r)
    \/ \E r \in AckResponses : connect_restart("main", r)
    \/ \E r \in BindResponses : connect_bind("main", r)
    \/ \E r \in AckResponses : connect_session("main", r)
    \/ on_connect_join
    \/ \E r \in JoinResponses : join_room_send("main", r)
    \/ join_room_process("main")
    \/ listen_thread
    \/ \E r \in PollResponses : listen_poll("poll", r)
    \/ listen_process("poll")
    \/ on_send
    \/ \E r \in AckResponses : send_message_send("main", r)
    \/ \E t \in Threads : wire.n < MaxConcReq /\ rid_load(t)
    \/ \E t \in Threads : rid_store(t)
    \/ \E t \in Threads : build_body(t)

SpecConc == Init /\ [][NextConc]_vars

\* ------------------------------------ connect, send, disconnect: SpecSession
\* One context connects (with an account argument that resolves or not),
\* sends and disconnects, in any order; past is kept.
InitSession ==
    /\ seed = Seed
    /\ rid = seed
    /\ sid = None
    /\ jid = None
    /\ joined_rooms = {}
    /\ initial_roster_received = FALSE
    /\ users = NoUsers
    /\ message_callback = FALSE
    /\ presence_callback = FALSE
    /\ account = TRUE
    /\ rooms \in RoomConfigs
    /\ frame = [t \in Threads |-> NoFrame]
    /\ wire = [n |-> 0, last |-> NoBody, maxrid |-> -1]
    /\ cb = <<>>
    /\ hist = [calls |-> <<>>, sent |-> <<>>, live |-> TRUE]
    /\ seen = [any |-> {}, available |-> {}]
    /\ server = ServerConfig(Url, Domain)
    /\ past = [NoPast EXCEPT !.live = TRUE]

NextSession ==
    \/ \E a \in BOOLEAN : call_connect_with("main", a)
    \/ \E r \in {HttpError, Malformed, EmptyBody, SidBody(S1)} :
          connect_init("main", r)
    \/ \E r \in AckResponses : connect_auth("main", r)
    \/ \E r \in AckResponses : connect_restart("main", r)
    \/ \E r \in {HttpError, EmptyBody, JidBody(J1)} : connect_bind("main", r)
    \/ \E r \in AckResponses : connect_session("main", r)
    \/ call_send_message("main", None)
    \/ \E r \in AckResponses : send_message_send("main", r)
    \/ call_disconnect("main")
    \/ \E r \in AckResponses : disconnect_send("main", r)
    \/ increment_and_build("main")
    \/ build_body("main")

SpecSession == InitSession /\ [][NextSession]_vars

\* ------------------------------------------- the handshake: SpecHandshake
\* connect() is called again and again; the auth, restart and session
\* requests are answered with anything: an HTTP error, text that is not XML,
\* an empty body, a terminate body, a body with a sid, with a jid, with
\* stanzas.
AnyAnswer ==
    { HttpError, Malformed, EmptyBody, Terminate, SidBody(S2), JidBody(J2),
      Stanzas(<<PA>>, <<M1>>) }

NextHandshake ==
    \/ call_connect("main")
    \/ \E r \in {EmptyBody, SidBody(S1)} : connect_init("main", r)
    \/ \E r \in AnyAnswer : connect_auth("main", r)
    \/ \E r \in AnyAnswer : connect_restart("main", r)
    \/ \E r \in {Malformed, EmptyBody, JidBody(J1)} : connect_bind("main", r)
    \/ \E r \in AnyAnswer : connect_session("main", r)
    \/ increment_and_build("main")
    \/ build_body("main")

SpecHandshake == InitSession /\ [][NextHandshake]_vars

\* ------------------------------------------- stopping the loop: SpecStop
\* on_connect as in SpecConc; once the listener thread runs, the UI context
\* calls disconnect(). requests.post is given no timeout: the poll thread
\* stays in send_request until the server answers. The threads take their
\* own steps and the server answers the requests of connect, join_room and
\* disconnect; whether and when it answers a poll it holds is up to it.
MaxStopReq == 8

stop ==
    /\ frame["poll"].op = "listen"
    /\ frame["main"].op # "disconnect"
    /\ call_disconnect("main")

\* the server answers a poll it holds; it lets the session go on only so long
StopPollResponses == {HttpError, Malformed, Terminate, EmptyBody}

stop_poll_answer ==
    \E r \in StopPollResponses :
       /\ poll_outcome(r) \in {"skip", "dispatch"} => wire.n < MaxStopReq
       /\ listen_poll("poll", r)

MainSteps ==
    \/ on_connect
    \/ \E r \in {SidBody(S1), HttpError} : connect_init("main", r)
    \/ \E r \in AckResponses : connect_auth("main", r)
    \/ \E r \in AckResponses : connect_restart("main", r)
    \/ \E r \in {JidBody(J1), HttpError} : connect_bind("main", r)
    \/ \E r \in AckResponses : connect_session("main", r)
    \/ on_connect_join
    \/ \E r \in JoinResponses : join_room_send("main", r)
    \/ join_room_process("main")
    \/ listen_thread
    \/ stop
    \/ \E r \in AckResponses : disconnect_send("main", r)
    \/ increment_and_build("main")
    \/ build_body("main")

PollSteps ==
    \/ increment_and_build("poll")
    \/ listen_process("poll")

NextStop ==
    \/ MainSteps
    \/ PollSteps
    \/ stop_poll_answer

SpecStop ==
    /\ InitRoster
    /\ [][NextStop]_vars
    /\ WF_vars(MainSteps)
    /\ WF_vars(PollSteps)

\* ------------------------------------ reading the roster: SpecSnapshot
\* The poll loop runs on its own thread and applies presences to the roster
\* one attribute assignment at a time, as the interpreter does; another
\* context calls get_all meanwhile. The on_presence callback reaches the
\* roster through the variable the latest on_connect has bound, whichever
\* thread invokes it; nothing in UserList locks or copies.
MaxSnapReq == 4

\* the attributes add_or_update assigns on an entry it has, in its order
Fields ==
    <<"login", "user_id", "avatar", "background", "game_id", "affiliation",
      "role", "status">>

\* the roster after the first n assignments of add_or_update(us, p) on the
\* entry it has for p
Assigned(us, p, n) ==
    LET old == us[p.from_jid]
        new == add_or_update(us, p)[p.from_jid]
    IN Put(us, p.from_jid,
           [f \in DOMAIN old |->
               IF \E i \in 1..n : Fields[i] = f THEN new[f] ELSE old[f]])

\* UserList.get_all: the list of the entries, which are the roster's own
\* objects; the caller sees them as they are at that moment
get_all(t) ==
    /\ Idle(t)
    /\ frame["poll"].op = "listen"
    /\ frame' = [frame EXCEPT ![t] = [NoFrame EXCEPT !.op = "get_all",
                                                     !.ret = "list",
                                                     !.view = users]]
    /\ UNCHANGED <<client, callbacks, config, seen, past, wire, cb, hist>>

\* on to the next presence of the response, or to the next poll
NextPresence(f, us) ==
    IF Tail(f.todo) = <<>>
    THEN [f EXCEPT !.pc = "load", !.todo = <<>>, !.step = 0, !.base = <<>>]
    ELSE [f EXCEPT !.todo = Tail(@), !.step = 0, !.base = us]

\* _process_response in listen, the message loop
listen_messages(t) ==
    /\ At(t, "listen", "poll", "process")
    /\ LET parsed == parse(frame[t].resp)
           n == Len(DispatchMessages(parsed.messages, message_callback,
                                     0, 0).cb)
       IN \E k \in 0..n :
            LET m == DispatchMessages(parsed.messages, message_callback, 0, k)
            IN /\ cb' = m.cb
               /\ IF m.raised
                  THEN /\ frame' = [frame EXCEPT
                                      ![t] = [Leave(@, "None") EXCEPT
                                                 !.resp = frame[t].resp]]
                       /\ hist' = End(hist, "None")
                  ELSE /\ frame' = [frame EXCEPT
                                      ![t] = IF parsed.presence = <<>>
                                             THEN [@ EXCEPT !.pc = "load"]
                                             ELSE [@ EXCEPT
                                                     !.pc = "presence",
                                                     !.todo = parsed.presence,
                                                     !.step = 0,
                                                     !.base = users]]
                       /\ UNCHANGED hist
    /\ UNCHANGED <<client, callbacks, config, seen, past, wire>>

\* add_or_update on an entry the roster has: the next assignment
listen_assign(t) ==
    /\ frame[t].op = "listen" /\ frame[t].pc = "presence"
    /\ LET p == Head(frame[t].todo)
       IN /\ p.presence_type = available
          /\ p.from_jid \in DOMAIN frame[t].base
          /\ frame[t].step < Len(Fields)
          /\ users' = Assigned(users, p, frame[t].step + 1)
          /\ frame' = [frame EXCEPT ![t].step = @ + 1]
    /\ UNCHANGED <<rid, sid, jid, joined_rooms, initial_roster_received,
                   callbacks, config, seen, past, wire, cb, hist>>

\* a presence loop that invokes the callback before it touches the roster
listen_presence_callback_first(t) ==
    /\ frame[t].op = "listen" /\ frame[t].pc = "presence"
    /\ LET p == Head(frame[t].todo)
           known == p.from_jid \in DOMAIN frame[t].base
           us == IF p.presence_type = available
                 THEN IF known THEN users ELSE add_or_update(users, p)
                 ELSE IF p.presence_type = unavailable
                      THEN remove(users, p.from_jid)
                      ELSE users
       IN /\ p.presence_type = available /\ known
                => frame[t].step = Len(Fields)
          /\ seen' = See(seen, <<p>>)
          /\ IF announces(p.presence_type, FALSE, initial_roster_received,
                          presence_callback)
             THEN \E raised \in BOOLEAN :
                    /\ cb' = Append(cb, Invocation("presence", p, raised))
                    /\ users' = IF raised THEN users ELSE us
                    /\ IF raised
                       THEN /\ frame' = [frame EXCEPT
                                           ![t] = [Leave(@, "None") EXCEPT
                                                     !.resp = frame[t].resp]]
                            /\ hist' = End(hist, "None")
                       ELSE /\ frame' = [frame EXCEPT
                                           ![t] = NextPresence(@, us)]
                            /\ UNCHANGED hist
             ELSE /\ frame' = [frame EXCEPT ![t] = NextPresence(@, us)]
                  /\ users' = us
                  /\ UNCHANGED <<cb, hist>>
    /\ UNCHANGED <<rid, sid, jid, joined_rooms, initial_roster_received,
                   callbacks, config, wire, past>>

\* the rest of the presence loop's body: a new entry is put into the dict, a
\* leave sets the status, and the presence callback is invoked if it is due
listen_presence(t) ==
    /\ frame[t].op = "listen" /\ frame[t].pc = "presence"
    /\ LET p == Head(frame[t].todo)
           known == p.from_jid \in DOMAIN frame[t].base
           us == IF p.presence_type = available
                 THEN IF known THEN users ELSE add_or_update(users, p)
                 ELSE IF p.presence_type = unavailable
                      THEN remove(users, p.from_jid)
                      ELSE users
       IN /\ p.presence_type = available /\ known
                => frame[t].step = Len(Fields)
          /\ users' = us
          /\ seen' = See(seen, <<p>>)
          /\ IF announces(p.presence_type, FALSE, initial_roster_received,
                          presence_callback)
             THEN \E raised \in BOOLEAN :
                    /\ cb' = Append(cb, Invocation("presence", p, raised))
                    /\ IF raised
                       THEN /\ frame' = [frame EXCEPT
                                           ![t] = [Leave(@, "None") EXCEPT
                                                     !.resp = frame[t].resp]]
                            /\ hist' = End(hist, "None")
                       ELSE /\ frame' = [frame EXCEPT
                                           ![t] = NextPresence(@, us)]
                            /\ UNCHANGED hist
             ELSE /\ frame' = [frame EXCEPT ![t] = NextPresence(@, us)]
                  /\ UNCHANGED <<cb, hist>>
    /\ UNCHANGED <<rid, sid, jid, joined_rooms, initial_roster_received,
                   callbacks, config, wire, past>>

SnapshotJoinResponses == {Stanzas(<<PFull, PB>>, <<>>)}
SnapshotPollResponses ==
    { Terminate, Stanzas(<<PNew>>, <<M1>>), Stanzas(<<PBU, PA>>, <<>>),
      Stanzas(<<PU, PA>>, <<>>) }

\* the joins of on_connect, before the listener is started
snapshot_join ==
    /\ frame["poll"].op = "none"
    /\ call_join_room("main", R1)

NextSnapshot ==
    \/ frame["poll"].op = "none" /\ set_message_callback("main")
    \/ frame["poll"].op = "none" /\ set_presence_callback("main")
    \/ snapshot_join
    \/ \E r \in SnapshotJoinResponses : join_room_send("main", r)
    \/ join_room_process("main")
    \/ listen_thread
    \/ \E r \in SnapshotPollResponses : listen_poll("poll", r)
    \/ listen_messages("poll")
    \/ listen_assign("poll")
    \/ listen_presence("poll")
    \/ get_all("main")
    \/ \E t \in Threads : wire.n < MaxSnapReq /\ increment_and_build(t)

SpecSnapshot == InitRoster /\ [][NextSnapshot]_vars

\* ================================================================ claims
Kinds(q) == [i \in 1..Len(q) |-> q[i].kind]
Handshake == <<"init", "auth", "restart", "bind", "session">>
\* a request reaches the server in this step
Arrival == wire'.n = wire.n + 1
\* the step in which context t enters method op
Calls(t, op) == Idle(t) /\ frame'[t] # frame[t] /\ frame'[t].op = op

\* C1: on a new client, a connect that returns True followed by one turn of
\* the poll loop has sent exactly init, auth, restart, bind, session, poll,
\* with strictly increasing request-ids, the first of them the seed.
FreshConnectThenPoll ==
    /\ hist.live
    /\ Len(hist.calls) = 2
    /\ hist.calls[1] = [op |-> "connect", ret |-> "True"]
    /\ hist.calls[2].op = "listen"
    /\ frame["main"].log = <<"poll">>
C1_SixRequests ==
    FreshConnectThenPoll =>
        /\ Kinds(hist.sent) = Handshake \o <<"poll">>
        /\ \A i \in 1..5 : hist.sent[i].rid < hist.sent[i + 1].rid
        /\ hist.sent[1].rid = seed
C1_Witness == FreshConnectThenPoll /\ Len(hist.sent) = 6

\* C2: while listen() polls on its own thread and send_message() is called
\* from another, every request reaching the server carries a request-id
\* greater than every request-id the server has seen.
C2_IdsIncreaseAcrossThreads ==
    [][(Arrival /\ frame["poll"].op = "listen") =>
          wire'.last.rid > wire.maxrid]_vars

\* C3: in a single execution context no request-id is reused and none
\* decreases: every request reaching the server carries a request-id greater
\* than every request-id the server has seen.
C3_IdsNeverReused == [][Arrival => wire'.last.rid > wire.maxrid]_vars

\* C4: a connect whose init answer supplies no session id returns False
\* having sent the init request only; one whose bind answer supplies no bound
\* address returns False without a session request.
C4_ShortCircuit ==
    \A t \in Threads :
        frame[t].op = "connect" =>
            /\ ~Truthy(frame[t].init) =>
                  frame[t].ret = "False" /\ frame[t].log = <<"init">>
            /\ ~Truthy(frame[t].bind) =>
                  /\ frame[t].ret = "False"
                  /\ frame[t].log = <<"init", "auth", "restart", "bind">>

\* C5: a connect whose init answer carries the session id S and whose bind
\* answer carries the bound address J holds sid = S and jid = J from then on,
\* and returns True once the session request is answered.
Answered(t) ==
    /\ frame[t].op = "connect"
    /\ frame[t].init \in {S1, S2}
    /\ frame[t].bind \in {J1, J2}
C5_FieldsAsReturned ==
    \A t \in Threads :
        Answered(t) =>
            /\ sid = frame[t].init
            /\ jid = frame[t].bind
            /\ (frame[t].pc = "done" /\ frame[t].ret # "raised") =>
                  frame[t].ret = "True"
C5_Witness ==
    /\ Answered("main")
    /\ frame["main"].ret = "True"
    /\ sid = S2 /\ jid = J2
    /\ wire.n = 10

\* C6: connect never ends with a raised error.
C6_ConnectNeverRaises ==
    \A t \in Threads : frame[t].op = "connect" => frame[t].ret # "raised"

\* C7: once disconnect has returned, neither a session id nor a bound
\* address is left.
C7_ClearedAfterDisconnect ==
    \A t \in Threads :
        (frame[t].op = "disconnect" /\ frame[t].pc = "done") =>
            ~Truthy(sid) /\ ~Truthy(jid)

\* C8: join_room for a room already in the set of joined rooms returns
\* without a request and leaves the request-id, the roster, the
\* initial-roster flag and the set as they are.
C8_RejoinIsNoOp ==
    [][\A t \in Threads :
          (Calls(t, "join_room") /\ frame'[t].room \in joined_rooms) =>
              /\ frame'[t].pc = "done"
              /\ frame'[t].log = <<>>
              /\ UNCHANGED <<rid, users, initial_roster_received,
                             joined_rooms, wire>>]_vars
C8_Witness ==
    /\ frame["main"].op = "join_room"
    /\ frame["main"].pc = "done"
    /\ frame["main"].ret = "None"
    /\ frame["main"].log = <<>>
    /\ frame["main"].room \in joined_rooms
    /\ wire.last.kind = "join"

\* C9: no step removes a room from the set of joined rooms, and no join
\* request is under way for a room in it.
C9_RoomsNeverRemoved ==
    /\ [][joined_rooms \subseteq joined_rooms']_vars
    /\ [](\A t \in Threads :
             (frame[t].op = "join_room" /\ frame[t].pc # "done") =>
                 frame[t].room \notin joined_rooms)
\* join_room returned at once for a joined room, after a disconnect
C9_Witness ==
    /\ frame["main"].op = "join_room"
    /\ frame["main"].pc = "done"
    /\ frame["main"].log = <<>>
    /\ frame["main"].room \in joined_rooms
    /\ wire.last.kind = "terminate"
    /\ sid = None

\* C10: send_message called without a session id, without a bound address or
\* without a room to send to returns False, sends nothing and leaves the
\* request-id alone; send_message never ends with a raised error.
C10_SendFails ==
    /\ [][\A t \in Threads :
             (/\ Calls(t, "send_message")
              /\ \/ ~Truthy(sid)
                 \/ ~Truthy(jid)
                 \/ frame'[t].room = None) =>
                 /\ frame'[t].pc = "done"
                 /\ frame'[t].ret = "False"
                 /\ UNCHANGED <<rid, wire>>]_vars
    /\ [](\A t \in Threads :
             frame[t].op = "send_message" => frame[t].ret # "raised")
C10_Witness ==
    /\ frame["main"].op = "send_message"
    /\ frame["main"].pc = "done"
    /\ frame["main"].ret = "False"
    /\ frame["main"].log = <<>>
    /\ Truthy(sid)
    /\ ~Truthy(jid)

\* ------------------------------------------------ dispatch, roster, poll loop
\* the step in which context t runs _process_response on the answer it holds
Dispatches(t) == frame[t].pc = "process" /\ frame'[t].pc # "process"
\* no callback raised in the dispatch of this step
Whole == \A j \in 1..Len(cb') : ~cb'[j].raised
IsPresenceInvocation(c) == c.cb = "presence"
IsAvailable(p) == p.presence_type = available
IsUnavailable(p) == p.presence_type = unavailable
\* the presences the presence callback was invoked with, in order
Announced(q) ==
    LET inv == SelectSeq(q, IsPresenceInvocation)
    IN [i \in 1..Len(inv) |-> inv[i].arg]
\* presence i is the last one in ps for its address
LastFor(ps, i) == \A j \in (i + 1)..Len(ps) : ps[j].from_jid # ps[i].from_jid

C12_ArrivalsAnnounced ==
    [][\A t \in Threads :
          (/\ Dispatches(t)
           /\ frame[t].op = "listen"
           /\ joined_rooms # {}
           /\ presence_callback
           /\ Whole) =>
              SelectSeq(Announced(cb'), IsAvailable)
                  = SelectSeq(parse(frame[t].resp).presence, IsAvailable)]_vars

Single(t) == Len(parse(frame[t].resp).presence) = 1
Only(t) == parse(frame[t].resp).presence[1]
PFullGone ==
    [user_id |-> <<"7">>, login |-> L1, jid |-> U1, avatar |-> A1,
     background |-> B1, game_id |-> G1, affiliation |-> owner,
     role |-> moderator, status |-> unavailable]

\* C14: a presence of type unavailable for an address in the roster leaves the
\* entry in place with status unavailable and every other field as it was;
\* an answer with an available presence (login, avatar, background, game,
\* membership) followed by an unavailable one for the same address leaves
\* the entry with those values and status unavailable.
C14_MarkedNotDeleted ==
    [][\A t \in Threads :
          (Dispatches(t) /\ Whole) =>
              /\ (/\ Single(t)
                  /\ IsUnavailable(Only(t))
                  /\ Only(t).from_jid \in DOMAIN users) =>
                     /\ DOMAIN users' = DOMAIN users
                     /\ users' = [users EXCEPT
                                    ![Only(t).from_jid].status = unavailable]
              /\ frame[t].resp.presences = <<PFull, PU>> =>
                     /\ U1 \in DOMAIN users'
                     /\ users'[U1] = PFullGone]_vars
C14_Witness ==
    /\ frame["main"].op = "listen"
    /\ frame["main"].pc = "load"
    /\ frame["main"].resp = Stanzas(<<PU>>, <<>>)
    /\ U1 \in DOMAIN users
    /\ users[U1] = PFullGone

\* C15 as stated: the roster has an entry for an address if and only if a
\* presence of any type was handled for that address.
C15_EntryIffSeen == DOMAIN users = seen.any
\* C15 amended: the roster has an entry for an address if and only if a
\* presence of type available was handled for that address; every such
\* address is among those a presence was handled for.
C15_EntryIffAvailableSeen ==
    /\ DOMAIN users = seen.available
    /\ seen.available \subseteq seen.any
\* one address entered by an arrival, another seen leaving only
C15_Witness ==
    /\ U1 \in DOMAIN users
    /\ U2 \in seen.any
    /\ U2 \notin DOMAIN users

\* C16: a dispatch enters no address in the roster but those of its
\* presences of type available; a presence of type unavailable for an
\* address without an entry leaves the roster as it was.
C16_UnknownLeaveIsNoOp ==
    [][\A t \in Threads :
          Dispatches(t) =>
              LET ps == parse(frame[t].resp).presence IN
              /\ \A j \in DOMAIN users' :
                    \/ j \in DOMAIN users
                    \/ \E i \in 1..Len(ps) :
                          IsAvailable(ps[i]) /\ ps[i].from_jid = j
              /\ (/\ Single(t)
                  /\ IsUnavailable(Only(t))
                  /\ Only(t).from_jid \notin DOMAIN users) =>
                     users' = users]_vars
C16_Witness ==
    /\ frame["main"].op = "listen"
    /\ frame["main"].pc = "load"
    /\ frame["main"].resp = Stanzas(<<PBU>>, <<>>)
    /\ presence_callback
    /\ cb = <<Invocation("presence", Presence(PBU), FALSE)>>
    /\ DOMAIN users = {U1}

\* the step in which context t applies a single presence of type available
\* to an entry the roster has
Updates(t) ==
    /\ Dispatches(t)
    /\ Whole
    /\ Single(t)
    /\ IsAvailable(Only(t))
    /\ Only(t).from_jid \in DOMAIN users

\* C17: when a presence of type available updates an entry, numeric id,
\* avatar and background each keep the old value if the new one is empty
\* and take the new one otherwise; none goes from non-empty to empty.
C17_StickyFields ==
    [][\A t \in Threads :
          Updates(t) =>
              LET p == Only(t)
                  u == users[p.from_jid]
                  v == users'[p.from_jid]
              IN /\ v.user_id = IF Truthy(p.user_id) THEN p.user_id
                                ELSE u.user_id
                 /\ v.avatar = IF Truthy(p.avatar) THEN p.avatar ELSE u.avatar
                 /\ v.background = IF Truthy(p.background) THEN p.background
                                   ELSE u.background
                 /\ Truthy(u.user_id) => Truthy(v.user_id)
                 /\ Truthy(u.avatar) => Truthy(v.avatar)
                 /\ Truthy(u.background) => Truthy(v.background)]_vars
\* the avatar replaced, the background kept
C17_Witness ==
    /\ frame["main"].op = "listen"
    /\ frame["main"].pc = "load"
    /\ frame["main"].resp = Stanzas(<<PNew>>, <<M1>>)
    /\ U1 \in DOMAIN users
    /\ users[U1].avatar = A2
    /\ users[U1].background = B1

\* C18: when a presence of type available updates an entry, login, game,
\* affiliation and role are those of the presence (no game when it names
\* none, none/participant when it has no membership block) and the status is
\* available.
C18_OverwrittenFields ==
    [][\A t \in Threads :
          Updates(t) =>
              LET p == Only(t)
                  el == frame[t].resp.presences[1]
                  v == users'[p.from_jid]
              IN /\ v.login = p.login
                 /\ Truthy(el.login) => v.login = el.login
                 /\ v.game_id = el.game_id
                 /\ v.affiliation = IF el.item.present
                                    THEN Get(el.item.affiliation, none)
                                    ELSE none
                 /\ v.role = IF el.item.present
                             THEN Get(el.item.role, participant)
                             ELSE participant
                 /\ v.status = available]_vars
\* the game and the membership cleared, the avatar kept
C18_Witness ==
    /\ frame["main"].op = "listen"
    /\ frame["main"].pc = "load"
    /\ frame["main"].resp = Stanzas(<<PA>>, <<>>)
    /\ U1 \in DOMAIN users
    /\ users[U1].game_id = None
    /\ users[U1].affiliation = none
    /\ users[U1].avatar = A1
    /\ users[U1].status = available

\* the step in which the poll request of context t is posted and answered;
\* the answer is frame'[t].resp
PollAnswered(t) == At(t, "listen", "poll", "post") /\ Arrival
NotXml(r) == r.status = "ok" /\ ~r.wf
IsTerminate(r) == r.status = "ok" /\ r.wf /\ r.type = <<"terminate">>

\* C19: a poll answer that is not XML leaves the loop running, at the next
\* `self.rid += 1`, with no callback invoked and the roster as it was; the
\* request sent next is a poll with the request-id of the last one plus one.
C19_BadFrameSkipped ==
    [][\A t \in Threads :
          /\ (PollAnswered(t) /\ NotXml(frame'[t].resp)) =>
                /\ frame'[t].op = "listen"
                /\ frame'[t].pc = "load"
                /\ UNCHANGED <<users, cb, rid>>
          /\ (PollAnswered(t) /\ NotXml(frame[t].resp)) =>
                /\ wire'.last.kind = "poll"
                /\ wire'.last.rid = wire.last.rid + 1]_vars
\* the poll after an answer that was not XML is about to be posted
C19_Witness ==
    /\ At("main", "listen", "poll", "post")
    /\ frame["main"].resp = Malformed
    /\ frame["main"].log = <<"poll">>
    /\ frame["main"].payload.rid = wire.last.rid + 1
    /\ presence_callback
    /\ U1 \in DOMAIN users

\* C20: a poll answer that parses and has the type terminate ends listen;
\* the loop that received it sends no further request.
C20_TerminateEndsLoop ==
    /\ [][\A t \in Threads :
             (PollAnswered(t) /\ IsTerminate(frame'[t].resp)) =>
                 frame'[t].pc = "done" /\ frame'[t].ret = "None"]_vars
    /\ [](\A t \in Threads :
            (frame[t].op = "listen" /\ IsTerminate(frame[t].resp)) =>
                frame[t].pc = "done")
\* listen ended by the answer to its second poll
C20_Witness ==
    /\ frame["main"].op = "listen"
    /\ frame["main"].pc = "done"
    /\ frame["main"].resp = Terminate
    /\ frame["main"].log = <<"poll", "poll">>
    /\ wire.last.kind = "poll"

\* C21: listen ends only on an answer of type terminate: whenever it has
\* returned, the last answer it received was one.
C21_EndsOnlyOnTerminate ==
    \A t \in Threads :
        (frame[t].op = "listen" /\ frame[t].pc = "done") =>
            IsTerminate(frame[t].resp)

\* C28: every request reaching the server carries the request-id the client
\* holds when it sends it, and the session id the client holds then, or none
\* when it holds none.
C28_TaggedWithRidAndSid ==
    [][Arrival =>
          /\ wire'.last.rid = rid
          /\ Truthy(sid) => wire'.last.sid = sid
          /\ ~Truthy(sid) => wire'.last.sid = None]_vars
\* the terminate request carried the session id that disconnect then cleared
C28_Witness ==
    /\ wire.last.kind = "terminate"
    /\ wire.last.sid = S2
    /\ wire.last.rid = rid
    /\ sid = None

\* the first room, in configured order, with auto_join
FirstAutoJoin(r) ==
    \E i \in 1..Len(rooms) :
        /\ rooms[i].auto_join
        /\ \A j \in 1..(i - 1) : ~rooms[j].auto_join
        /\ r = rooms[i].jid

\* C29: a send_message call without a room argument that goes on to send
\* works on the first configured room with auto_join, and its request is
\* addressed to that room, whatever the set of joined rooms holds.
C29_DefaultRoom ==
    [][\A t \in Threads :
          /\ (/\ Calls(t, "send_message")
              /\ frame'[t].arg = None
              /\ frame'[t].pc # "done") => FirstAutoJoin(frame'[t].room)
          /\ (/\ Arrival
              /\ At(t, "send_message", "message", "post")
              /\ frame[t].arg = None) => FirstAutoJoin(wire'.last.to)]_vars
\* a message without a room argument went to the second room while only the
\* first one was joined
C29_Witness ==
    /\ wire.last.kind = "message"
    /\ wire.last.to = R2
    /\ frame["main"].op = "send_message"
    /\ frame["main"].arg = None
    /\ joined_rooms = {R1}

\* C30: with a configuration that lacks the url or the domain, the
\* constructor ends by raising, no request is ever sent, and neither a
\* session id nor a bound address is ever set.
C30_BadConfigRaises ==
    (server.url \in {None, Empty} \/ server.domain \in {None, Empty}) =>
        /\ frame["main"].op = "__init__"
        /\ frame["main"].pc = "done" => frame["main"].ret = "raised"
        /\ wire.n = 0
        /\ sid = None
        /\ jid = None
C30_Witness ==
    /\ frame["main"].op = "__init__"
    /\ frame["main"].ret = "raised"
    /\ server = ServerConfig(Url, None)
    /\ wire.n = 0

IsMessageInvocation(c) == c.cb = "message"
\* the messages the message callback was invoked with, in order
Delivered(q) ==
    LET inv == SelectSeq(q, IsMessageInvocation)
    IN [i \in 1..Len(inv) |-> inv[i].arg]
\* a letter of the phrase and the same letter in either case
SameLetter(a, b) ==
    \/ a = b
    \/ <<a, b>> \in {<<"N", "n">>, <<"O", "o">>, <<"T", "t">>, <<"A", "a">>,
                    <<"Y", "y">>, <<"M", "m">>, <<"U", "u">>, <<"S", "s">>}
\* the message is the bot's or its body holds the phrase in some letter case
Moderated(m) ==
    \/ m.login = Klavobot
    \/ /\ m.body # None
       /\ \E i \in 0..(Len(m.body) - Len(not_anonymous)) :
             \A k \in 1..Len(not_anonymous) :
                SameLetter(m.body[i + k], not_anonymous[k])
Unmoderated(m) == ~Moderated(m)

C24_NotXmlDecodesEmpty ==
    /\ [](\A t \in Threads :
            ~frame[t].resp.wf =>
                parse(frame[t].resp) = [messages |-> <<>>, presence |-> <<>>])
    /\ [][\A t \in Threads :
             (Dispatches(t) /\ ~frame[t].resp.wf) =>
                 /\ users' = users
                 /\ cb' = <<>>
                 /\ frame'[t].ret = "None"]_vars
\* a join whose answer was not XML, with both callbacks registered
C24_Witness ==
    /\ frame["main"].op = "join_room"
    /\ frame["main"].ret = "None"
    /\ wire.n = 1
    /\ message_callback
    /\ presence_callback
    /\ users = NoUsers
    /\ cb = <<>>

\* C25: the roster entry of the address 12#al/g7, entered by a presence
\* without userdata, has the numeric id 12 and the login al.
C25_IdBeforeHash ==
    U25 \in DOMAIN users =>
        /\ users[U25].user_id = <<"1", "2">>
        /\ users[U25].login = <<"a", "l">>

Reads(t) == frame'[t].op = "get_all" /\ frame'[t] # frame[t]
\* the entry e is neither what the roster held for address j when the poll
\* loop began to apply the presence it has in hand, nor what it holds once
\* that presence is applied
Torn(j, e) ==
    LET f == frame["poll"]
    IN /\ f.op = "listen" /\ f.pc = "presence"
       /\ Head(f.todo).presence_type = available
       /\ j = Head(f.todo).from_jid
       /\ j \in DOMAIN f.base
       /\ e # f.base[j]
       /\ e # add_or_update(f.base, Head(f.todo))[j]
\* C26: the entries a get_all call made beside the running poll loop returns
\* are never torn: each is the entry as it was before the presence the loop
\* is applying, or as it is after it.
C26_NoTornRecord ==
    [][Reads("main") =>
         \A j \in DOMAIN frame'["main"].view :
            ~Torn(j, frame'["main"].view[j])]_vars

\* --------------------------------------------------------- stopping the loop
\* disconnect() was called while the poll loop ran, and has returned
Stopped == frame["main"].op = "disconnect" /\ Idle("main")
\* C22: once disconnect(), called while the poll loop runs on its thread, has
\* returned, the loop eventually ends, whatever the server does with the poll
\* it holds.
C22_DisconnectEndsLoop ==
    Stopped ~> (frame["poll"].op = "listen" /\ Idle("poll"))

\* ------------------------------------------------- the session's usability
\* the step in which a send_message call on context t gets past the session
\* and room tests: the request that follows is built and posted
SendGoesOn(t) ==
    /\ Idle(t)
    /\ frame'[t].op = "send_message"
    /\ frame'[t].ret = "running"
\* C31: while the last connect() that returned has returned False, no
\* send_message call gets past its session test: it returns False and sends
\* nothing.
C31_UnusableAfterFailedConnect ==
    [][past.failed => ~SendGoesOn("main")]_vars

\* C37: once disconnect() has returned, no send_message call gets past its
\* session test until a later connect has stored a session id and a bound
\* address.
C37_UnusableAfterDisconnect ==
    [][past.stopped /\ ~(past.sid /\ past.jid) => ~SendGoesOn("main")]_vars

\* ------------------------------------------------------------- disconnect
\* the step in which disconnect() is called on context t
DisconnectCalled(t) ==
    Idle(t) /\ frame'[t].op = "disconnect" /\ frame'[t] # frame[t]
\* C34: disconnect() goes on to a terminate request exactly when a session id
\* is present at the call; the request carries the request-id incremented by
\* one; however the transport answers it, the call returns with session id
\* and bound address cleared; without a session id the call returns at once,
\* with no request and the request-id as it was.
C34_TerminateIffSession ==
    /\ [][DisconnectCalled("main") =>
            IF Truthy(sid) THEN frame'["main"].ret = "running"
            ELSE /\ frame'["main"].ret = "None"
                 /\ UNCHANGED <<rid, wire, sid, jid>>]_vars
    /\ [][frame["main"].op = "disconnect" /\ frame["main"].pc = "load"
            /\ frame'["main"] # frame["main"] =>
               /\ rid' = rid + 1
               /\ frame'["main"].payload.kind = "terminate"
               /\ frame'["main"].payload.rid = rid + 1]_vars
    /\ [][frame["main"].op = "disconnect" /\ frame["main"].pc = "post"
            /\ frame'["main"] # frame["main"] =>
               /\ wire'.n = wire.n + 1
               /\ wire'.last = frame["main"].payload
               /\ frame'["main"].ret = "None"
               /\ sid' = None /\ jid' = None
               /\ rid' = rid]_vars
    /\ [](frame["main"].op = "disconnect" /\ Idle("main") =>
            frame["main"].log \in {<<>>, <<"terminate">>})
\* disconnect() has sent its terminate request on a bound session and
\* returned, the session cleared
C34_Witness ==
    /\ frame["main"].op = "disconnect"
    /\ Idle("main")
    /\ frame["main"].log = <<"terminate">>
    /\ wire.last.kind = "terminate"
    /\ wire.last.sid = S1
    /\ sid = None /\ jid = None
    /\ past.jid = FALSE /\ past.stopped

\* -------------------------------------------------------------- membership
\* C33: a room enters the membership set only in a join_room call made on a
\* bound session, the session id and the bound address both set.
C33_JoinedOnBoundSession ==
    [][joined_rooms' # joined_rooms => Truthy(sid) /\ Truthy(jid)]_vars

\* the step in which join_room is called on context t
JoinCalled(t) ==
    Idle(t) /\ frame'[t].op = "join_room" /\ frame'[t] # frame[t]
\* the step in which a join_room call on context t ends with an error
JoinRaised(t) ==
    /\ frame[t].op = "join_room" /\ ~Idle(t)
    /\ frame'[t].ret = "raised"
\* C32: a room enters the membership set only in the step that ends the
\* processing of its join answer without an error; a join call that ends with
\* an error, of the transport or of the processing, leaves the room out of
\* the set, and a join call for a room that is not in the set goes on to send
\* a join request.
C32_JoinedAfterRoundTrip ==
    /\ [][joined_rooms' # joined_rooms =>
            /\ At("main", "join_room", "join", "process")
            /\ frame'["main"].ret = "None"
            /\ joined_rooms' = joined_rooms \cup {frame["main"].room}]_vars
    /\ [][JoinRaised("main") =>
            /\ joined_rooms' = joined_rooms
            /\ frame["main"].room \notin joined_rooms']_vars
    /\ [][JoinCalled("main") /\ account
            /\ frame'["main"].room \notin joined_rooms =>
               frame'["main"].ret = "running"]_vars
\* a join call ended with an error raised by a callback while its answer was
\* processed, and the room is not in the set
C32_Witness ==
    /\ frame["main"].op = "join_room"
    /\ frame["main"].ret = "raised"
    /\ cb # <<>>
    /\ cb[Len(cb)].raised
    /\ frame["main"].room \notin joined_rooms

\* C36: once a room has been joined and no join_room call is executing, the
\* initial-roster flag is set.
C36_FlagSetOutsideJoin ==
    (joined_rooms # {} /\ ~(frame["main"].op = "join_room" /\ ~Idle("main")))
        => initial_roster_received

\* ---------------------------------------------------- the terminate answer
\* C38: the step in which the poll loop gets a terminate answer ends the loop
\* and invokes no callback, leaves the roster, the session id, the bound
\* address and the membership set as they are; the stanzas of that answer are
\* never dispatched.
C38_TerminateNotDispatched ==
    /\ [][\A t \in Threads :
             (PollAnswered(t) /\ IsTerminate(frame'[t].resp)) =>
                 /\ frame'[t].pc = "done"
                 /\ UNCHANGED <<users, cb, sid, jid, joined_rooms>>]_vars
    /\ [][\A t \in Threads :
             Dispatches(t) => ~IsTerminate(frame[t].resp)]_vars
\* the loop has ended on a terminate answer that carries a presence and a
\* message, with both callbacks registered: no callback was invoked, the
\* presence is not in the roster
C38_Witness ==
    /\ frame["main"].op = "listen"
    /\ frame["main"].pc = "done"
    /\ frame["main"].resp = TerminateWith
    /\ message_callback /\ presence_callback
    /\ cb = <<>>
    /\ U1 \notin DOMAIN users

\* ------------------------------------------------------- coming back online
\* the poll loop on context t has made every assignment of an available
\* presence on an entry that was marked unavailable when it began
Reactivated(t) ==
    /\ frame[t].op = "listen" /\ frame[t].pc = "presence"
    /\ Head(frame[t].todo).presence_type = available
    /\ Head(frame[t].todo).from_jid \in DOMAIN frame[t].base
    /\ frame[t].base[Head(frame[t].todo).from_jid].status = unavailable
    /\ frame[t].step = Len(Fields)
\* C39: an available presence for an address whose entry is marked
\* unavailable sets the status of that entry back to available; the roster
\* has the same addresses as before and the other entries are untouched; the
\* numeric id, avatar and background of the entry stay when the presence
\* leaves them empty.
C39_BackOnSameEntry ==
    \A t \in Threads :
       Reactivated(t) =>
          LET p == Head(frame[t].todo)
              u == frame[t].base[p.from_jid]
              v == users[p.from_jid]
          IN /\ DOMAIN users = DOMAIN frame[t].base
             /\ \A j \in DOMAIN users \ {p.from_jid} :
                   users[j] = frame[t].base[j]
             /\ v.status = available
             /\ v.jid = u.jid
             /\ v.user_id = IF Truthy(p.user_id) THEN p.user_id ELSE u.user_id
             /\ v.avatar = IF Truthy(p.avatar) THEN p.avatar ELSE u.avatar
             /\ v.background = IF Truthy(p.background) THEN p.background
                               ELSE u.background
\* an occupant with an avatar and a background left and came back with a
\* presence that names neither: the entry is available and has kept both
C39_Witness ==
    /\ Reactivated("poll")
    /\ ~Truthy(Head(frame["poll"].todo).avatar)
    /\ ~Truthy(Head(frame["poll"].todo).background)
    /\ users[Head(frame["poll"].todo).from_jid].avatar = A1
    /\ users[Head(frame["poll"].todo).from_jid].background = B1
    /\ users[Head(frame["poll"].todo).from_jid].status = available

\* ------------------------------------------- the roster the callback finds
\* the roster us reflects the presence p
Reflects(us, p) ==
    IF IsAvailable(p)
    THEN /\ p.from_jid \in DOMAIN us
         /\ us[p.from_jid].status = available
         /\ us[p.from_jid].login = p.login
         /\ us[p.from_jid].game_id = p.game_id
         /\ us[p.from_jid].affiliation = p.affiliation
         /\ us[p.from_jid].role = p.role
         /\ Truthy(p.avatar) => us[p.from_jid].avatar = p.avatar
         /\ Truthy(p.background) => us[p.from_jid].background = p.background
    ELSE p.from_jid \in DOMAIN us => us[p.from_jid].status = unavailable
\* the step in which the presence loop of the poll thread invokes the
\* presence callback
PresenceInvoked ==
    /\ frame["poll"].op = "listen" /\ frame["poll"].pc = "presence"
    /\ Len(cb') = Len(cb) + 1
    /\ IsPresenceInvocation(cb'[Len(cb')])
\* C35: when the presence callback is invoked for a presence, whether it
\* returns or raises, the roster it finds reflects that presence: an
\* available one has its entry, available and with the presence's values;
\* an unavailable one whose address is known has its entry marked
\* unavailable.
C35_RosterBeforeCallback ==
    [][PresenceInvoked => Reflects(users', cb'[Len(cb')].arg)]_vars
\* the presence callback was invoked for a leave of a known occupant and
\* raised; the entry is marked unavailable
C35_Witness ==
    /\ frame["poll"].op = "listen"
    /\ frame["poll"].pc = "done"
    /\ cb # <<>>
    /\ IsPresenceInvocation(cb[Len(cb)])
    /\ cb[Len(cb)].raised
    /\ IsUnavailable(cb[Len(cb)].arg)
    /\ cb[Len(cb)].arg.from_jid \in DOMAIN users
    /\ users[cb[Len(cb)].arg.from_jid].status = unavailable

\* ------------------------------------------------- what connect depends on
\* the step in which the request of stage st of a connect call is answered
StageAnswered(st) == At("main", "connect", st, "post") /\ Arrival
\* C40: the answers to the auth, restart and session requests decide nothing
\* but whether connect raises: after auth connect goes on to restart, after
\* restart to bind, and none of the three steps writes the session id or the
\* bound address or returns False; the bind step returns False exactly when
\* no bound address is set after it; the session step returns True, with a
\* session id and a bound address set.
C40_OutcomeFromInitAndBind ==
    /\ [][StageAnswered("auth") =>
            /\ UNCHANGED <<sid, jid>>
            /\ frame'["main"].ret \in {"running", "raised"}
            /\ frame'["main"].ret = "running"
                  => frame'["main"].stage = "restart"]_vars
    /\ [][StageAnswered("restart") =>
            /\ UNCHANGED <<sid, jid>>
            /\ frame'["main"].ret \in {"running", "raised"}
            /\ frame'["main"].ret = "running"
                  => frame'["main"].stage = "bind"]_vars
    /\ [][StageAnswered("bind") /\ frame'["main"].ret # "raised" =>
            /\ Truthy(sid')
            /\ frame'["main"].ret = "False" <=> ~Truthy(jid')
            /\ frame'["main"].ret = "running" <=> Truthy(jid')
            /\ frame'["main"].ret = "running"
                  => frame'["main"].stage = "session"]_vars
    /\ [][StageAnswered("session") =>
            /\ UNCHANGED <<sid, jid>>
            /\ frame'["main"].ret \in {"True", "raised"}
            /\ Truthy(sid) /\ Truthy(jid)]_vars
\* connect has returned True with the session id of the init answer and the
\* bound address of the bind answer
C40_Witness ==
    /\ frame["main"].op = "connect"
    /\ frame["main"].ret = "True"
    /\ frame["main"].log = <<"init", "auth", "restart", "bind", "session">>
    /\ sid = S1
    /\ jid = J1

====
